---- MODULE Spec2Model ----
(***************************************************************************)
(* Model of the performance calculation of aisuru-pp:                      *)
(*   - src/src/catch/gradual_performance.rs: the gradual performance       *)
(*     evaluator CatchGradualPerformanceAttributes;                        *)
(*   - src/src/osu/pp.rs: the builder OsuPP, its hit-result normalisation  *)
(*     accuracy(), its hit-result completion assert_hitresults() with the  *)
(*     effective miss count, and calculate().                              *)
(* usize values are kept modulo 2^UsizeBits; f64 values that the model     *)
(* needs are kept as exact fractions <<numerator, denominator>>.           *)
(***************************************************************************)
EXTENDS Integers, Sequences, FiniteSets, TLC

VARIABLES
    map,              \* the Beatmap both evaluators borrow
    gradual,          \* g -> CatchGradualPerformanceAttributes {difficulty, performance}
    ret,              \* g -> what the last call on evaluator g returned (Option)
    last,             \* g -> Some([state, n, from]) of the last call on evaluator g (from =
                      \*      the cursor before the call), or None
    handed,           \* g -> Some(builder handed to calculate() by the last call), or None
    calculator,       \* the OsuPP builder of the accuracy() scenario
    orig,             \* the OsuPP builder as the caller configured it, before accuracy()
    acc_arg,          \* Some(percentage passed to the last accuracy() call), or None
    overflow_checks,  \* build profile: TRUE = arithmetic overflow panics, FALSE = it wraps
    overflowed,       \* TRUE once an arithmetic operation of a call left the usize range
    again,            \* Some(what a second accuracy() call on the returned builder gives), or None
    inner,            \* Some(OsuPPInner returned by assert_hitresults()), or None
    result,           \* Some(what calculate() returned), or None
    provided          \* Some(the provider last handed to attributes()), or None

vars == <<map, gradual, ret, last, handed, calculator, orig, acc_arg,
          overflow_checks, overflowed, again, inner, result, provided>>

gradualVars == <<map, gradual, ret, last, handed>>
accuracyVars == <<calculator, orig, acc_arg, overflow_checks, overflowed,
                  again, inner, result, provided>>
calculateVars == <<again, inner, result, provided>>

----------------------------------------------------------------------------
(* Bounds of the model *)

\* longest map, in hit objects
MaxObjects == 3
\* largest ordinary step n of process_next_n_objects
MaxN == 2
\* a step far beyond every map length (the tests pass usize::MAX)
HugeN == 1000
\* width of usize in the model (64 on the real targets; 2^16 and 2^64 agree mod 4 and 5)
UsizeBits == 16
\* largest passed_objects a caller sets
MaxPassed == 9
\* largest miss count a caller sets
MaxMisses == 2
\* largest n100 or n50 a caller fixes
MaxFixed == 3
\* accuracy targets are the multiples of AccStep percent in 0..100
AccStep == 4

----------------------------------------------------------------------------
(* Option<T> *)

None == << >>
Some(x) == <<x>>
IsSome(o) == o # None
IsNone(o) == o = None
Unwrap(o) == o[1]
UnwrapOr(o, d) == IF o = None THEN d ELSE o[1]

Min(a, b) == IF a <= b THEN a ELSE b
Max(a, b) == IF a >= b THEN a ELSE b

----------------------------------------------------------------------------
(* Beatmap and the difficulty collaborator *)

\* A Beatmap: its hit-object list (objects are opaque) and its beatmap_id.
Beatmap(len) == [hit_objects |-> [i \in 1..len |-> i], beatmap_id |-> 0]

Maps == {Beatmap(len) : len \in 0..MaxObjects}

\* Mod bit masks used by the tests and the doc example: nomod and DT (64).
ModSets == {0, 64}

\* The difficulty attributes of the first `passed` objects of a map under
\* `mods`: an opaque bundle, determined by the map prefix and the mods.
DifficultyAttributes(m, mods, passed) ==
    [mods |-> mods, prefix |-> SubSeq(m.hit_objects, 1, Min(passed, Len(m.hit_objects)))]

\* CatchGradualDifficultyAttributes::new
GradualDifficultyNew(m, mods) == [map |-> m, mods |-> mods, idx |-> 0]

\* Iterator::next of CatchGradualDifficultyAttributes: one snapshot per
\* processed object, None once the objects are used up.
GradualDifficultyNext(d) ==
    IF d.idx < Len(d.map.hit_objects)
    THEN [self |-> [d EXCEPT !.idx = d.idx + 1],
          item |-> Some(DifficultyAttributes(d.map, d.mods, d.idx + 1))]
    ELSE [self |-> d, item |-> None]

----------------------------------------------------------------------------
(* CatchScoreState *)

CatchScoreStateDefault ==
    [max_combo |-> 0, n_fruits |-> 0, n_droplets |-> 0, n_tiny_droplets |-> 0,
     n_tiny_droplet_misses |-> 0, misses |-> 0]

\* Score states the callers pass: empty, one fruit caught, one miss.
ScoreStates ==
    {CatchScoreStateDefault,
     [CatchScoreStateDefault EXCEPT !.max_combo = 1, !.n_fruits = 1],
     [CatchScoreStateDefault EXCEPT !.misses = 1]}

----------------------------------------------------------------------------
(* CatchPP, the builder the gradual evaluator holds *)

CatchPPNew(m) ==
    [map |-> m, attributes |-> None, mods |-> 0, state |-> None, passed_objects |-> None]

CatchPPMods(self, mods) == [self EXCEPT !.mods = mods]

CatchPPPassedObjects(self, passed_objects) ==
    [self EXCEPT !.passed_objects = Some(passed_objects)]

CatchPPAttributes(self, attributes) == [self EXCEPT !.attributes = Some(attributes)]

CatchPPState(self, state) == [self EXCEPT !.state = Some(state)]

\* CatchPP::calculate: reuse the attributes if present, else derive them
\* bounded to passed_objects; the result is determined by the attributes,
\* the mods, the score state and the number of judged objects.
CatchPPCalculate(self) ==
    LET n_objects == UnwrapOr(self.passed_objects, Len(self.map.hit_objects))
        attributes ==
            IF IsSome(self.attributes) THEN Unwrap(self.attributes)
            ELSE DifficultyAttributes(self.map, self.mods, n_objects)
    IN [difficulty |-> attributes,
        pp |-> [mods |-> self.mods, state |-> self.state, n_objects |-> n_objects]]

----------------------------------------------------------------------------
(* CatchGradualPerformanceAttributes *)

\* CatchGradualPerformanceAttributes::new
GradualPerformanceNew(m, mods) ==
    [difficulty |-> GradualDifficultyNew(m, mods),
     performance |-> CatchPPPassedObjects(CatchPPMods(CatchPPNew(m), mods), 0)]

\* The loop of process_next_n_objects: up to k calls of next(), keeping the
\* last snapshot, leaving the loop at the first None.
RECURSIVE PullSnapshots(_, _, _)
PullSnapshots(d, k, difficulty) ==
    IF k = 0 THEN [self |-> d, difficulty |-> difficulty]
    ELSE LET r == GradualDifficultyNext(d)
         IN IF IsSome(r.item) THEN PullSnapshots(r.self, k - 1, r.item)
            ELSE [self |-> r.self, difficulty |-> difficulty]

\* The builder chain of process_next_n_objects, lines 179-187, on which
\* calculate() is called.
GradualBuilder(self, difficulty, state, passed_objects) ==
    CatchPPPassedObjects(
        CatchPPState(CatchPPAttributes(self.performance, difficulty), state),
        passed_objects)

\* Variants of process_next_n_objects with one slip each.

\* An exhausted sequence falls back to the attributes of the whole prefix
\* instead of returning None.
process_next_n_objects_stale(self, state, n) ==
    LET pulled == PullSnapshots(self.difficulty, Max(n, 1), None)
        after == [self EXCEPT !.difficulty = pulled.self]
        d == after.difficulty
        difficulty ==
            IF IsSome(pulled.difficulty) THEN pulled.difficulty
            ELSE IF d.idx > 0 THEN Some(DifficultyAttributes(d.map, d.mods, d.idx))
            ELSE None
    IN IF IsNone(difficulty)
       THEN [self |-> after, ret |-> None, handed |-> None]
       ELSE LET performance == GradualBuilder(after, Unwrap(difficulty), state, d.idx)
            IN [self |-> after,
                ret |-> Some(CatchPPCalculate(performance)),
                handed |-> Some(performance)]

\* The loop keeps the first snapshot instead of the last.
RECURSIVE PullSnapshotsFirst(_, _, _)
PullSnapshotsFirst(d, k, difficulty) ==
    IF k = 0 THEN [self |-> d, difficulty |-> difficulty]
    ELSE LET r == GradualDifficultyNext(d)
         IN IF IsSome(r.item)
            THEN PullSnapshotsFirst(r.self, k - 1,
                                    IF IsSome(difficulty) THEN difficulty ELSE r.item)
            ELSE [self |-> r.self, difficulty |-> difficulty]

process_next_n_objects_first(self, state, n) ==
    LET pulled == PullSnapshotsFirst(self.difficulty, Max(n, 1), None)
        after == [self EXCEPT !.difficulty = pulled.self]
    IN IF IsNone(pulled.difficulty)
       THEN [self |-> after, ret |-> None, handed |-> None]
       ELSE LET performance ==
                    GradualBuilder(after, Unwrap(pulled.difficulty), state,
                                   after.difficulty.idx)
            IN [self |-> after,
                ret |-> Some(CatchPPCalculate(performance)),
                handed |-> Some(performance)]

\* Running past the end of the map forgets the snapshot already pulled.
RECURSIVE PullSnapshotsOverrun(_, _, _)
PullSnapshotsOverrun(d, k, difficulty) ==
    IF k = 0 THEN [self |-> d, difficulty |-> difficulty]
    ELSE LET r == GradualDifficultyNext(d)
         IN IF IsSome(r.item) THEN PullSnapshotsOverrun(r.self, k - 1, r.item)
            ELSE [self |-> r.self, difficulty |-> None]

process_next_n_objects_overrun(self, state, n) ==
    LET pulled == PullSnapshotsOverrun(self.difficulty, Max(n, 1), None)
        after == [self EXCEPT !.difficulty = pulled.self]
    IN IF IsNone(pulled.difficulty)
       THEN [self |-> after, ret |-> None, handed |-> None]
       ELSE LET performance ==
                    GradualBuilder(after, Unwrap(pulled.difficulty), state,
                                   after.difficulty.idx)
            IN [self |-> after,
                ret |-> Some(CatchPPCalculate(performance)),
                handed |-> Some(performance)]

\* passed_objects is given the cursor as it was before the advance.
process_next_n_objects_oldidx(self, state, n) ==
    LET pulled == PullSnapshots(self.difficulty, Max(n, 1), None)
        after == [self EXCEPT !.difficulty = pulled.self]
    IN IF IsNone(pulled.difficulty)
       THEN [self |-> after, ret |-> None, handed |-> None]
       ELSE LET performance ==
                    GradualBuilder(after, Unwrap(pulled.difficulty), state,
                                   self.difficulty.idx)
            IN [self |-> after,
                ret |-> Some(CatchPPCalculate(performance)),
                handed |-> Some(performance)]

\* n is not clamped to at least 1.
process_next_n_objects_noclamp(self, state, n) ==
    LET pulled == PullSnapshots(self.difficulty, n, None)
        after == [self EXCEPT !.difficulty = pulled.self]
    IN IF IsNone(pulled.difficulty)
       THEN [self |-> after, ret |-> None, handed |-> None]
       ELSE LET performance ==
                    GradualBuilder(after, Unwrap(pulled.difficulty), state,
                                   after.difficulty.idx)
            IN [self |-> after,
                ret |-> Some(CatchPPCalculate(performance)),
                handed |-> Some(performance)]

\* The builder is built in place of the stored template instead of on a
\* clone of it.
process_next_n_objects_noclone(self, state, n) ==
    LET pulled == PullSnapshots(self.difficulty, Max(n, 1), None)
        after == [self EXCEPT !.difficulty = pulled.self]
    IN IF IsNone(pulled.difficulty)
       THEN [self |-> after, ret |-> None, handed |-> None]
       ELSE LET performance ==
                    GradualBuilder(after, Unwrap(pulled.difficulty), state,
                                   after.difficulty.idx)
            IN [self |-> [after EXCEPT !.performance = performance],
                ret |-> Some(CatchPPCalculate(performance)),
                handed |-> Some(performance)]

\* process_next_n_objects(&mut self, state, n): the evaluator afterwards, the
\* value returned, and the builder on which calculate() was called (if any).
process_next_n_objects(self, state, n) ==
    LET pulled == PullSnapshots(self.difficulty, Max(n, 1), None)
        after == [self EXCEPT !.difficulty = pulled.self]
    IN IF IsNone(pulled.difficulty)
       THEN [self |-> after, ret |-> None, handed |-> None]
       ELSE LET performance ==
                    GradualBuilder(after, Unwrap(pulled.difficulty), state,
                                   after.difficulty.idx)
            IN [self |-> after,
                ret |-> Some(CatchPPCalculate(performance)),
                handed |-> Some(performance)]

\* process_next_object(&mut self, state)
process_next_object(self, state) == process_next_n_objects(self, state, 1)

----------------------------------------------------------------------------
(* The gradual scenario: two evaluators over the same map and mods *)

Evaluators == {1, 2}

StepSizes == (0..MaxN) \cup {HugeN}

\* OsuPP::new
OsuPPNew(m) ==
    [map |-> m, attributes |-> None, mods |-> 0, acc |-> None, combo |-> None,
     n300 |-> None, n100 |-> None, n50 |-> None, n_misses |-> 0,
     passed_objects |-> None, clock_rate |-> None]

GradualInit ==
    /\ map \in Maps
    /\ \E mods \in ModSets :
          gradual = [g \in Evaluators |-> GradualPerformanceNew(map, mods)]
    /\ ret = [g \in Evaluators |-> None]
    /\ last = [g \in Evaluators |-> None]
    /\ handed = [g \in Evaluators |-> None]
    /\ calculator = OsuPPNew(map)
    /\ orig = OsuPPNew(map)
    /\ acc_arg = None
    /\ overflow_checks = FALSE
    /\ overflowed = FALSE
    /\ again = None
    /\ inner = None
    /\ result = None
    /\ provided = None

\* The cursor of evaluator g and the number of objects of its map.
Cursor(g) == gradual[g].difficulty.idx
Total == Len(map.hit_objects)

Apply(g, r, state, n) ==
    /\ gradual' = [gradual EXCEPT ![g] = r.self]
    /\ ret' = [ret EXCEPT ![g] = r.ret]
    /\ handed' = [handed EXCEPT ![g] = r.handed]
    /\ last' = [last EXCEPT ![g] = Some([state |-> state, n |-> n, from |-> Cursor(g)])]
    /\ UNCHANGED <<map, accuracyVars>>

ProcessNextObject(g, state) ==
    Apply(g, process_next_object(gradual[g], state), state, 1)

ProcessNextNObjects(g, state, n) ==
    Apply(g, process_next_n_objects(gradual[g], state, n), state, n)

GradualNext ==
    \E g \in Evaluators, state \in ScoreStates :
        \/ ProcessNextObject(g, state)
        \/ \E n \in StepSizes : ProcessNextNObjects(g, state, n)

GradualSpec == GradualInit /\ [][GradualNext]_vars

----------------------------------------------------------------------------
(* usize and f64 arithmetic *)

USize == 2 ^ UsizeBits

\* a - b, a + b, a * b on usize without overflow checks
WrappingSub(a, b) == (a - b) % USize
WrappingAdd(a, b) == (a + b) % USize
WrappingMul(a, b) == (a * b) % USize
\* the conditions under which the checked operations panic
SubOverflows(a, b) == a < b
AddOverflows(a, b) == a + b >= USize
MulOverflows(a, b) == a * b >= USize

\* usize::saturating_sub
SaturatingSub(a, b) == IF a >= b THEN a - b ELSE 0

\* (num / den).round() as usize, for num >= 0 and den > 0: f64::round rounds
\* half away from zero.
RoundToUsize(num, den) == Min((2 * num + den) \div (2 * den), USize - 1)

----------------------------------------------------------------------------
(* OsuPP: setters and accuracy() *)

\* OsuPP::n100
OsuPPN100(self, n100) == [self EXCEPT !.n100 = Some(n100)]
\* OsuPP::n50
OsuPPN50(self, n50) == [self EXCEPT !.n50 = Some(n50)]
\* OsuPP::misses
OsuPPMisses(self, n_misses) == [self EXCEPT !.n_misses = n_misses]
\* OsuPP::passed_objects
OsuPPPassedObjects(self, passed_objects) ==
    [self EXCEPT !.passed_objects = Some(passed_objects)]

\* n_objects of accuracy() and assert_hitresults()
NObjects(self) == UnwrapOr(self.passed_objects, Len(self.map.hit_objects))

\* The tail shared by both branches of accuracy(): store the counts and the
\* recomputed accuracy (6*n300 + 2*n100 + n50) / (6*n_objects), kept as a
\* fraction <<numerator, denominator>>.
StoreCounts(self, n300, n100, n50, n_objects, overflow) ==
    LET a == WrappingMul(6, n300)
        b == WrappingMul(2, n100)
        ab == WrappingAdd(a, b)
        numerator == WrappingAdd(ab, n50)
        denominator == WrappingMul(6, n_objects)
    IN [self |-> [self EXCEPT !.n300 = Some(n300), !.n100 = Some(n100),
                              !.n50 = Some(n50),
                              !.acc = Some(<<numerator, denominator>>)],
        overflow |-> \/ overflow
                     \/ MulOverflows(6, n300) \/ MulOverflows(2, n100)
                     \/ AddOverflows(a, b) \/ AddOverflows(ab, n50)
                     \/ MulOverflows(6, n_objects)]

\* accuracy(), the branch taken when n100 or n50 is set (lines 186-211);
\* acc is the percentage passed in, rebalance the condition of line 197.
AccuracyFixed(self, acc, n_objects, rebalance) ==
    LET n100 == UnwrapOr(self.n100, 0)
        n50 == UnwrapOr(self.n50, 0)
        p1 == WrappingMul(2, n100)
        p2 == WrappingAdd(p1, n50)
        placed_points == WrappingAdd(p2, self.n_misses)
        m1 == WrappingSub(n_objects, n100)
        m2 == WrappingSub(m1, n50)
        missing_objects == WrappingSub(m2, self.n_misses)
        missing_points ==
            SaturatingSub(RoundToUsize(6 * acc * n_objects, 100), placed_points)
        n300 == Min(missing_objects, missing_points \div 6)
        n50b == WrappingAdd(n50, missing_objects - n300)
        overflow1 ==
            \/ MulOverflows(2, n100) \/ AddOverflows(p1, n50)
            \/ AddOverflows(p2, self.n_misses)
            \/ SubOverflows(n_objects, n100) \/ SubOverflows(m1, n50)
            \/ SubOverflows(m2, self.n_misses)
            \/ AddOverflows(n50, missing_objects - n300)
    IN IF rebalance
       THEN LET orig_n50 == Unwrap(self.n50)
                difference == WrappingSub(n50b, orig_n50)
                n == Min(n300, difference \div 4)
            IN StoreCounts(self,
                           WrappingSub(n300, n),
                           WrappingAdd(n100, WrappingMul(5, n)),
                           WrappingSub(n50b, WrappingMul(4, n)),
                           n_objects,
                           \/ overflow1
                           \/ SubOverflows(n50b, orig_n50)
                           \/ MulOverflows(5, n)
                           \/ AddOverflows(n100, WrappingMul(5, n))
                           \/ MulOverflows(4, n)
                           \/ SubOverflows(n50b, WrappingMul(4, n)))
       ELSE StoreCounts(self, n300, n100, n50b, n_objects, overflow1)

\* accuracy(), the branch taken when neither n100 nor n50 is set, up to the
\* final shift (lines 213-219): the counts before the shift.
FreeCounts(self, acc, n_objects) ==
    LET misses == Min(self.n_misses, n_objects)
        target_total == RoundToUsize(acc * n_objects * 6, 100)
        delta == WrappingSub(target_total, n_objects - misses)
        n300 == delta \div 5
        r1 == WrappingSub(n_objects, n300)
        r2 == WrappingSub(r1, misses)
        n100 == Min(delta % 5, r2)
        r3 == WrappingSub(r1, n100)
        n50 == WrappingSub(r3, misses)
    IN [n300 |-> n300, n100 |-> n100, n50 |-> n50,
        overflow |-> \/ SubOverflows(target_total, n_objects - misses)
                     \/ SubOverflows(n_objects, n300) \/ SubOverflows(r1, misses)
                     \/ SubOverflows(r1, n100) \/ SubOverflows(r3, misses)]

\* The shift of lines 221-225 moves 4 n50 onto n100 for each n300 given up,
\* instead of 5.
AccuracyFree_shift4(self, acc, n_objects) ==
    LET c == FreeCounts(self, acc, n_objects)
        n == Min(c.n300, c.n50 \div 4)
    IN StoreCounts(self,
                   WrappingSub(c.n300, n),
                   WrappingAdd(c.n100, WrappingMul(4, n)),
                   WrappingSub(c.n50, WrappingMul(4, n)),
                   n_objects,
                   \/ c.overflow
                   \/ MulOverflows(4, n)
                   \/ AddOverflows(c.n100, WrappingMul(4, n)))

\* accuracy(), the branch taken when neither n100 nor n50 is set (lines 213-231)
AccuracyFree(self, acc, n_objects) ==
    LET c == FreeCounts(self, acc, n_objects)
        n == Min(c.n300, c.n50 \div 4)
    IN StoreCounts(self,
                   WrappingSub(c.n300, n),
                   WrappingAdd(c.n100, WrappingMul(5, n)),
                   WrappingSub(c.n50, WrappingMul(4, n)),
                   n_objects,
                   \/ c.overflow
                   \/ MulOverflows(5, n)
                   \/ AddOverflows(c.n100, WrappingMul(5, n))
                   \/ MulOverflows(4, n))

\* Variants of accuracy() with one slip each.

\* The re-balancing of line 197 runs whenever n50 was set, n100 set or not.
accuracy_rebalance_any(self, acc) ==
    IF IsSome(self.n100) \/ IsSome(self.n50)
    THEN AccuracyFixed(self, acc, NObjects(self), IsSome(self.n50))
    ELSE AccuracyFree(self, acc, NObjects(self))

\* The re-balancing of line 197 never runs.
accuracy_rebalance_never(self, acc) ==
    IF IsSome(self.n100) \/ IsSome(self.n50)
    THEN AccuracyFixed(self, acc, NObjects(self), FALSE)
    ELSE AccuracyFree(self, acc, NObjects(self))

\* OsuPP::accuracy(self, acc), acc a percentage: the builder returned and
\* whether an arithmetic operation overflowed on the way.
accuracy(self, acc) ==
    IF IsSome(self.n100) \/ IsSome(self.n50)
    THEN AccuracyFixed(self, acc, NObjects(self), IsSome(self.n50) /\ IsNone(self.n100))
    ELSE AccuracyFree(self, acc, NObjects(self))

----------------------------------------------------------------------------
(* The accuracy() scenario: a builder is configured, then accuracy() is called *)

AccTargets == {k * AccStep : k \in 0..(100 \div AccStep)}

\* No accuracy() call yet: the builder is still being configured.
Building == IsNone(acc_arg)
\* The build panics on overflow and a call has overflowed.
Panicked == overflowed /\ overflow_checks
\* accuracy() has been called and has returned a builder.
Returned == IsSome(acc_arg) /\ ~Panicked

AccuracyInit ==
    /\ map \in Maps
    /\ gradual = [g \in Evaluators |-> GradualPerformanceNew(map, 0)]
    /\ ret = [g \in Evaluators |-> None]
    /\ last = [g \in Evaluators |-> None]
    /\ handed = [g \in Evaluators |-> None]
    /\ calculator = OsuPPNew(map)
    /\ orig = OsuPPNew(map)
    /\ acc_arg = None
    /\ overflow_checks \in BOOLEAN
    /\ overflowed = FALSE
    /\ again = None
    /\ inner = None
    /\ result = None
    /\ provided = None

Configure(builder) ==
    /\ Building
    /\ calculator' = builder
    /\ orig' = builder
    /\ UNCHANGED <<gradualVars, acc_arg, overflow_checks, overflowed, calculateVars>>

SetN100 == \E n100 \in 0..MaxFixed : Configure(OsuPPN100(calculator, n100))
SetN50 == \E n50 \in 0..MaxFixed : Configure(OsuPPN50(calculator, n50))
SetMisses == \E n_misses \in 0..MaxMisses : Configure(OsuPPMisses(calculator, n_misses))
SetPassedObjects ==
    \E passed_objects \in 0..MaxPassed :
        Configure(OsuPPPassedObjects(calculator, passed_objects))

\* calculator = calculator.accuracy(acc)
Accuracy ==
    \E acc \in AccTargets :
        LET r == accuracy(calculator, acc)
        IN /\ Building
           /\ acc_arg' = Some(acc)
           /\ overflowed' = r.overflow
           /\ calculator' = IF r.overflow /\ overflow_checks THEN calculator ELSE r.self
           /\ UNCHANGED <<gradualVars, orig, overflow_checks, calculateVars>>

\* calculator.clone().accuracy(acc) with the acc of the first call, on the
\* builder the first call returned
AccuracyAgain ==
    /\ Returned
    /\ IsNone(again)
    /\ again' = Some(accuracy(calculator, Unwrap(acc_arg)))
    /\ UNCHANGED <<gradualVars, calculator, orig, acc_arg, overflow_checks,
                   overflowed, inner, result, provided>>

AccuracyNext ==
    SetN100 \/ SetN50 \/ SetMisses \/ SetPassedObjects \/ Accuracy \/ AccuracyAgain

AccuracySpec == AccuracyInit /\ [][AccuracyNext]_vars

----------------------------------------------------------------------------
(* One-shot evaluations, as the tests build them *)

\* CatchPP::new(&map).mods(mods).state(state).calculate()
Regular(m, mods, state) ==
    CatchPPCalculate(CatchPPState(CatchPPMods(CatchPPNew(m), mods), state))

\* CatchPP::new(&map).mods(mods).passed_objects(n).state(state).calculate()
RegularPassed(m, mods, n, state) ==
    CatchPPCalculate(
        CatchPPState(CatchPPPassedObjects(CatchPPMods(CatchPPNew(m), mods), n), state))

Called(g) == IsSome(last[g])
LastCall(g) == Unwrap(last[g])
ModsOf(g) == gradual[g].performance.mods

----------------------------------------------------------------------------
(* Claims about the gradual evaluator *)

\* C1: every call made while the cursor equals the number of objects
\* (the evaluator is exhausted) returns None and leaves the cursor there,
\* whatever score state and n it is given.
C1_ExhaustedReturnsNone ==
    \A g \in Evaluators :
        (Called(g) /\ LastCall(g).from = Total) => (ret[g] = None /\ Cursor(g) = Total)

\* An evaluator over a non-empty map was called with a huge n when already
\* exhausted, and returned None.
C1_Witness ==
    \E g \in Evaluators :
        /\ Total > 0
        /\ Called(g) /\ LastCall(g).from = Total /\ LastCall(g).n = HugeN
        /\ ret[g] = None

\* C2: two evaluators over the same map and mods whose last calls reached
\* the same cursor with the same score state return equal attributes from
\* those calls, however the steps before were split and whatever states they
\* were given.
C2_SplitsAgree ==
    (/\ IsSome(ret[1]) /\ IsSome(ret[2])
     /\ Cursor(1) = Cursor(2)
     /\ LastCall(1).state = LastCall(2).state) => ret[1] = ret[2]

\* Evaluator 1 reached cursor 2 by single steps, evaluator 2 by one call of
\* size 2, both with the same last score state.
C2_Witness ==
    /\ IsSome(ret[1]) /\ IsSome(ret[2])
    /\ Cursor(1) = 2 /\ Cursor(2) = 2
    /\ LastCall(1).n = 1 /\ LastCall(1).from = 1
    /\ LastCall(2).n = 2 /\ LastCall(2).from = 0
    /\ LastCall(1).state = LastCall(2).state
    /\ ret[1] = ret[2]

\* C3: a fresh evaluator driven to the end of a non-empty map by one call
\* with a huge n returns what the one-shot builder returns for the whole map
\* (no passed_objects) with the same score state.
C3_EndEqualsRegular ==
    \A g \in Evaluators :
        (Called(g) /\ LastCall(g).from = 0 /\ LastCall(g).n = HugeN /\ Total > 0)
            => ret[g] = Some(Regular(map, ModsOf(g), LastCall(g).state))

\* A fresh evaluator over a map of at least two objects was driven to the
\* end by one call with a huge n and returned a result.
C3_Witness ==
    \E g \in Evaluators :
        /\ Total >= 2
        /\ Called(g) /\ LastCall(g).from = 0 /\ LastCall(g).n = HugeN
        /\ Cursor(g) = Total /\ IsSome(ret[g])

\* C4: whenever a call returned a result, the cursor k is in 1..Total, the
\* result is what the one-shot builder returns with passed_objects = k and
\* the same score state, and the builder the evaluator evaluated was given
\* passed_objects = k.
C4_EqualsRegularPassed ==
    \A g \in Evaluators :
        IsSome(ret[g]) =>
            /\ Cursor(g) \in 1..Total
            /\ ret[g] = Some(RegularPassed(map, ModsOf(g), Cursor(g), LastCall(g).state))
            /\ Unwrap(handed[g]).passed_objects = Some(Cursor(g))

\* A fresh evaluator was advanced by one call to exactly 2 objects of a
\* longer map and returned a result.
C4_Witness ==
    \E g \in Evaluators :
        /\ IsSome(ret[g]) /\ Cursor(g) = 2 /\ Total > 2
        /\ LastCall(g).from = 0 /\ LastCall(g).n = 2

\* C5: a call made while objects remain moves the cursor forward by exactly
\* min(max(n, 1), remaining) and returns a result.
C5_AdvanceClamped ==
    \A g \in Evaluators :
        (Called(g) /\ LastCall(g).from < Total) =>
            /\ Cursor(g) = LastCall(g).from
                              + Min(Max(LastCall(g).n, 1), Total - LastCall(g).from)
            /\ IsSome(ret[g])

\* Both clamps have acted: one evaluator was called with n = 0 and moved by
\* one object, the other with a huge n while two or more objects remained and
\* stopped at the end.
C5_Witness ==
    \E g, h \in Evaluators :
        /\ Called(g) /\ LastCall(g).n = 0 /\ Cursor(g) = LastCall(g).from + 1
        /\ IsSome(ret[g])
        /\ Called(h) /\ LastCall(h).n = HugeN /\ Total - LastCall(h).from >= 2
        /\ Cursor(h) = Total /\ IsSome(ret[h])

----------------------------------------------------------------------------
(* Claims about accuracy() *)

\* The counts accuracy() stored, and the caller's inputs.
N300 == Unwrap(calculator.n300)
N100 == Unwrap(calculator.n100)
N50 == Unwrap(calculator.n50)
Target == Unwrap(acc_arg)

Abs(x) == IF x >= 0 THEN x ELSE -x

\* C6 (as claimed): the counts accuracy() produces sum to the object count
\* minus the misses, for every target, object count, miss count and fixed
\* n100/n50.
C6_SumIsObjectsMinusMisses ==
    Returned => N300 + N100 + N50 = NObjects(orig) - orig.n_misses

\* Counts n300, n100, n50 of the N - misses judged non-miss objects exist
\* whose weighted accuracy is within one percentage point of the target.
SomeCountsWithinOnePoint ==
    LET n == NObjects(orig)
        hits == n - orig.n_misses
    IN \E x \in 0..hits : \E y \in 0..(hits - x) :
           Abs(100 * (6 * x + 2 * y + (hits - x - y)) - Target * 6 * n) < 6 * n

\* C7 (as claimed, on the inputs with no tier fixed for which such counts
\* exist): the accuracy recomputed from the counts accuracy() produced,
\* (6*n300 + 2*n100 + n50) / (6*N), differs from the target by less than one
\* percentage point.
C7_WithinOnePoint ==
    (/\ Returned /\ NObjects(orig) > 0
     /\ IsNone(orig.n100) /\ IsNone(orig.n50)
     /\ SomeCountsWithinOnePoint) =>
        Abs(100 * (6 * N300 + 2 * N100 + N50) - Target * 6 * NObjects(orig))
            < 6 * NObjects(orig)

\* C8 (as claimed): no arithmetic operation of accuracy() leaves the usize
\* range: every difference is clamped at zero before subtracting.
C8_NeverUnderflows == IsSome(acc_arg) => ~overflowed

\* C9 (as claimed, on the calls in which nothing overflows): after
\* accuracy(), n100 equals the caller's n100 if it was set and n50 equals the
\* caller's n50 if it was set.
C9_FixedTiersKept ==
    (Returned /\ ~overflowed) =>
        /\ IsSome(orig.n100) => calculator.n100 = orig.n100
        /\ IsSome(orig.n50) => calculator.n50 = orig.n50

\* C9 (amended): after accuracy(), n100 equals the caller's n100 if it was
\* set, with n50 set or not; a fixed n50 is not kept.
C9_FixedN100Kept ==
    (Returned /\ IsSome(orig.n100)) => calculator.n100 = orig.n100

\* Both middle tiers were fixed, accuracy() returned without overflow, n100
\* is the caller's and n50 is not.
C9_Witness ==
    /\ Returned /\ ~overflowed
    /\ IsSome(orig.n100) /\ IsSome(orig.n50)
    /\ calculator.n100 = orig.n100
    /\ calculator.n50 # orig.n50

\* C10 (as claimed, on the calls in which nothing overflows): with only n50
\* fixed, the n50 after accuracy() differs from the caller's n50 by at most 4.
C10_N50Within4 ==
    (Returned /\ ~overflowed /\ IsSome(orig.n50) /\ IsNone(orig.n100)) =>
        Abs(N50 - Unwrap(orig.n50)) <= 4

\* C10 (amended): with only n50 fixed, the n50 after accuracy() differs from
\* the caller's n50 by at most 4 whenever accuracy() leaves n300 above 0.
C10_N50Within4IfN300Left ==
    (Returned /\ IsSome(orig.n50) /\ IsNone(orig.n100) /\ N300 > 0) =>
        Abs(N50 - Unwrap(orig.n50)) <= 4

\* Only n50 was fixed; accuracy() moved objects onto n100, left n300 above 0
\* and n50 above the caller's value.
C10_Witness ==
    /\ Returned /\ ~overflowed
    /\ IsSome(orig.n50) /\ IsNone(orig.n100)
    /\ N300 > 0 /\ N100 > 0
    /\ N50 > Unwrap(orig.n50)

----------------------------------------------------------------------------
(* Claims about the cursor of the gradual evaluator *)

\* The builder template CatchGradualPerformanceAttributes::new stores for
\* the mods of evaluator g: passed_objects 0, no attributes, no score state.
Template(g) == GradualPerformanceNew(map, ModsOf(g)).performance

\* What C19 says of one state: the cursor is within 0..Total, and a call that
\* returned None was made with the cursor at Total and has left the cursor and
\* the template as they were.
C19_State ==
    \A g \in Evaluators :
        /\ Cursor(g) \in 0..Total
        /\ (Called(g) /\ ret[g] = None) =>
               /\ LastCall(g).from = Total
               /\ Cursor(g) = LastCall(g).from
               /\ gradual[g].performance = Template(g)

\* What C19 says of one step: no cursor decreases, and an evaluator whose
\* cursor or template changes in the step has returned a result.
C19_Step ==
    \A g \in Evaluators :
        /\ Cursor(g)' >= Cursor(g)
        /\ gradual'[g] # gradual[g] => IsSome(ret'[g])

\* C19: in every reachable state 0 <= cursor <= total and no step decreases
\* a cursor; a call returns None only if the cursor already equalled total
\* before the call, and such a call leaves the cursor and the builder template
\* (mods, passed_objects 0, no stored score state) unchanged.
C19_CursorBounded == []C19_State /\ [][C19_Step]_vars

\* An evaluator over a map of at least two objects returned results on the
\* way to the end, then was called once more with n = 1 and returned None,
\* its cursor still at the end and its template intact.
C19_Witness ==
    \E g \in Evaluators :
        /\ Total >= 2
        /\ Called(g) /\ LastCall(g).from = Total /\ LastCall(g).n = 1
        /\ ret[g] = None /\ Cursor(g) = Total
        /\ gradual[g].performance = Template(g)

----------------------------------------------------------------------------
(* Claims about repeated and unconstrained accuracy() calls *)

\* What the second accuracy() call returned.
Again == Unwrap(again)

\* C14 (as claimed, on the calls in which nothing overflows): calling
\* accuracy(a) again on the builder accuracy(a) returned, with misses and
\* passed_objects unchanged, leaves n300, n100, n50 and the stored accuracy
\* as they were after the first call.
C14_Idempotent ==
    (IsSome(again) /\ ~overflowed /\ ~Again.overflow) =>
        /\ Again.self.n300 = calculator.n300
        /\ Again.self.n100 = calculator.n100
        /\ Again.self.n50 = calculator.n50
        /\ Again.self.acc = calculator.acc

\* The counts of the branch without fixed tiers before its final shift, for
\* the caller's builder and target.
BeforeShift == FreeCounts(orig, Target, NObjects(orig))
\* round(6 * a * N)
TargetPoints == RoundToUsize(Target * NObjects(orig) * 6, 100)

\* Counts of N - misses objects exist whose weighted points are TargetPoints.
TargetReachable ==
    LET hits == NObjects(orig) - orig.n_misses
    IN \E x \in 0..hits : \E y \in 0..(hits - x) :
           6 * x + 2 * y + (hits - x - y) = TargetPoints

\* C18: when neither middle tier is fixed, accuracy(a) stores counts whose
\* weighted points 6*n300 + 2*n100 + n50 equal round(6*a*N) whenever counts of
\* N - misses objects with those points exist (and nothing overflows then);
\* the final shift changes neither the sum of the counts nor their weighted
\* points; and afterwards n50 < 4 or n300 = 0.
C18_FreePointsExact ==
    (IsSome(acc_arg) /\ IsNone(orig.n100) /\ IsNone(orig.n50)) =>
        /\ TargetReachable =>
               /\ ~overflowed
               /\ 6 * N300 + 2 * N100 + N50 = TargetPoints
        /\ Returned =>
               /\ N300 + N100 + N50
                      = BeforeShift.n300 + BeforeShift.n100 + BeforeShift.n50
               /\ 6 * N300 + 2 * N100 + N50
                      = 6 * BeforeShift.n300 + 2 * BeforeShift.n100 + BeforeShift.n50
               /\ (N50 < 4 \/ N300 = 0)

\* No tier was fixed, a miss was set, the target was reachable and hit
\* exactly, and the final shift has given up at least one n300.
C18_Witness ==
    /\ Returned /\ IsNone(orig.n100) /\ IsNone(orig.n50)
    /\ orig.n_misses > 0
    /\ TargetReachable
    /\ 6 * N300 + 2 * N100 + N50 = TargetPoints
    /\ N300 < BeforeShift.n300
    /\ N300 > 0 /\ N50 < 4

----------------------------------------------------------------------------
(* OsuPP: hit-result completion and the effective miss count *)

\* largest n300, n100 or n50 a caller sets before assert_hitresults()
MaxCount == 2
\* largest passed_objects a caller sets before assert_hitresults()
MaxJudged == 4
\* largest combo a caller sets and largest max_combo of an attribute bundle
MaxCombo == 3
\* largest n_sliders of an attribute bundle (below 10, so that
\* max_combo - 0.1 * n_sliders is never a whole number)
MaxSliders == 2

\* OsuPP::mods
OsuPPMods(self, mods) == [self EXCEPT !.mods = mods]
\* OsuPP::combo
OsuPPCombo(self, combo) == [self EXCEPT !.combo = Some(combo)]
\* OsuPP::n300
OsuPPN300(self, n300) == [self EXCEPT !.n300 = Some(n300)]

\* OsuDifficultyAttributes: the slider count and max combo the performance
\* calculation reads, and what the skill values were computed from.
OsuDifficultyAttributes(mods, passed_objects, clock_rate, n_sliders, max_combo) ==
    [computed_for |-> [mods |-> mods, passed_objects |-> passed_objects,
                       clock_rate |-> clock_rate],
     n_sliders |-> n_sliders, max_combo |-> max_combo]

\* f64 values as fractions <<numerator, denominator>>, denominator > 0
FMin(x, y) == IF x[1] * y[2] <= y[1] * x[2] THEN x ELSE y
FFloor(x) == x[1] \div x[2]

\* combo_based_misses of calculate_effective_misses before the clamp
\* (lines 695-705); 10 * full_combo_threshold = 10 * max_combo - n_sliders.
ComboBasedMisses(attributes, combo) ==
    LET full_combo_threshold10 == 10 * attributes.max_combo - attributes.n_sliders
    IN IF /\ attributes.n_sliders > 0
          /\ IsSome(combo)
          /\ 10 * Unwrap(combo) < full_combo_threshold10
       THEN <<full_combo_threshold10, 10 * Max(Unwrap(combo), 1)>>
       ELSE <<0, 1>>

\* The estimate is not clamped to total_hits.
calculate_effective_misses_unclamped(attributes, combo, n_misses, total_hits) ==
    Max(n_misses, FFloor(ComboBasedMisses(attributes, combo)))

\* calculate_effective_misses(&attributes, combo, n_misses, total_hits)
calculate_effective_misses(attributes, combo, n_misses, total_hits) ==
    LET combo_based_misses ==
            FMin(ComboBasedMisses(attributes, combo), <<total_hits, 1>>)
    IN Max(n_misses, FFloor(combo_based_misses))

\* The OsuPPInner both branches of assert_hitresults() build (lines 253-267
\* and 300-320), and whether an arithmetic operation overflowed on the way.
HitresultsInner(self, attributes, acc, n300, n100, n50, n_objects, overflow) ==
    LET s1 == WrappingAdd(n300, n100)
        s2 == WrappingAdd(s1, n50)
        s3 == WrappingAdd(s2, self.n_misses)
        total_hits == Min(s3, n_objects)
    IN [inner |-> [attributes |-> attributes, mods |-> self.mods,
                   combo |-> self.combo, acc |-> acc,
                   n300 |-> n300, n100 |-> n100, n50 |-> n50,
                   total_hits |-> total_hits,
                   effective_misses |->
                       calculate_effective_misses(attributes, self.combo,
                                                  self.n_misses, total_hits)],
        overflow |-> \/ overflow
                     \/ AddOverflows(n300, n100) \/ AddOverflows(s1, n50)
                     \/ AddOverflows(s2, self.n_misses)]

\* remaining of assert_hitresults() (lines 273-277)
Remaining(self) ==
    SaturatingSub(
        SaturatingSub(
            SaturatingSub(
                SaturatingSub(NObjects(self), UnwrapOr(self.n300, 0)),
                UnwrapOr(self.n100, 0)),
            UnwrapOr(self.n50, 0)),
        self.n_misses)

\* The counts after the completion of lines 279-291, as Options.
Completed(self, remaining) ==
    IF remaining > 0
    THEN IF IsSome(self.n300)
         THEN IF IsNone(self.n100)
              THEN [n300 |-> self.n300, n100 |-> Some(remaining), n50 |-> self.n50]
              ELSE IF IsNone(self.n50)
                   THEN [n300 |-> self.n300, n100 |-> self.n100, n50 |-> Some(remaining)]
                   ELSE [n300 |-> Some(WrappingAdd(Unwrap(self.n300), remaining)),
                         n100 |-> self.n100, n50 |-> self.n50]
         ELSE [n300 |-> Some(remaining), n100 |-> self.n100, n50 |-> self.n50]
    ELSE [n300 |-> self.n300, n100 |-> self.n100, n50 |-> self.n50]

\* The branch of assert_hitresults() without a stored accuracy (lines 268-321)
\* for a given remaining.
HitresultsCompleted(self, attributes, remaining) ==
    LET c == Completed(self, remaining)
        n300 == UnwrapOr(c.n300, 0)
        n100 == UnwrapOr(c.n100, 0)
        n50 == UnwrapOr(c.n50, 0)
        a == WrappingMul(n300, 6)
        b == WrappingMul(n100, 2)
        ab == WrappingAdd(a, b)
        numerator == WrappingAdd(ab, n50)
        n_objects == NObjects(self)
        acc == IF n_objects > 0 THEN <<numerator, 6 * n_objects>> ELSE <<0, 1>>
    IN HitresultsInner(self, attributes, acc, n300, n100, n50, n_objects,
                       \/ (/\ remaining > 0 /\ IsSome(self.n300)
                           /\ IsSome(self.n100) /\ IsSome(self.n50)
                           /\ AddOverflows(Unwrap(self.n300), remaining))
                       \/ MulOverflows(n300, 6) \/ MulOverflows(n100, 2)
                       \/ AddOverflows(a, b) \/ AddOverflows(ab, n50))

\* The unaccounted objects are computed without the misses.
assert_hitresults_nomisses(self, attributes) ==
    IF IsSome(self.acc)
    THEN HitresultsInner(self, attributes, Unwrap(self.acc),
                         UnwrapOr(self.n300, 0), UnwrapOr(self.n100, 0),
                         UnwrapOr(self.n50, 0), NObjects(self), FALSE)
    ELSE HitresultsCompleted(self, attributes,
                             Remaining([self EXCEPT !.n_misses = 0]))

\* OsuPP::assert_hitresults(self, attributes)
assert_hitresults(self, attributes) ==
    IF IsSome(self.acc)
    THEN HitresultsInner(self, attributes, Unwrap(self.acc),
                         UnwrapOr(self.n300, 0), UnwrapOr(self.n100, 0),
                         UnwrapOr(self.n50, 0), NObjects(self), FALSE)
    ELSE HitresultsCompleted(self, attributes, Remaining(self))

----------------------------------------------------------------------------
(* The hit-result scenario: a configured builder is handed to              *)
(* assert_hitresults() with an attribute bundle                            *)

Options(S) == {None} \cup {Some(x) : x \in S}

\* The builders a caller can have configured with n300, n100, n50, misses,
\* passed_objects and combo, on a fresh builder or (acc stored, all three
\* counts stored) after an accuracy() call.
HitresultBuilders(m) ==
    {[OsuPPNew(m) EXCEPT !.n300 = n300, !.n100 = n100, !.n50 = n50,
                         !.n_misses = n_misses, !.passed_objects = passed_objects,
                         !.combo = combo, !.acc = acc] :
        n300 \in Options(0..MaxCount), n100 \in Options(0..MaxCount),
        n50 \in Options(0..MaxCount), n_misses \in 0..MaxMisses,
        passed_objects \in Options(0..MaxJudged), combo \in Options(0..MaxCombo),
        acc \in {None, Some(<<6, 6>>)}}

\* The attribute bundles handed to assert_hitresults().
AttributeBundles ==
    {OsuDifficultyAttributes(0, None, None, n_sliders, max_combo) :
        n_sliders \in 0..MaxSliders, max_combo \in 0..MaxCombo}

HitresultsInit ==
    /\ map = Beatmap(MaxObjects)
    /\ gradual = [g \in Evaluators |-> GradualPerformanceNew(map, 0)]
    /\ ret = [g \in Evaluators |-> None]
    /\ last = [g \in Evaluators |-> None]
    /\ handed = [g \in Evaluators |-> None]
    /\ calculator \in HitresultBuilders(map)
    /\ IsSome(calculator.acc) =>
           IsSome(calculator.n300) /\ IsSome(calculator.n100) /\ IsSome(calculator.n50)
    /\ orig = calculator
    /\ acc_arg = None
    /\ overflow_checks = TRUE
    /\ overflowed = FALSE
    /\ again = None
    /\ inner = None
    /\ result = None
    /\ provided = None

\* inner = calculator.assert_hitresults(attributes)
AssertHitresults ==
    \E attributes \in AttributeBundles :
        LET r == assert_hitresults(calculator, attributes)
        IN /\ IsNone(inner)
           /\ overflowed' = r.overflow
           /\ inner' = IF r.overflow /\ overflow_checks THEN None ELSE Some(r.inner)
           /\ UNCHANGED <<gradualVars, calculator, orig, acc_arg, overflow_checks,
                          again, result, provided>>

HitresultsNext == AssertHitresults

HitresultsSpec == HitresultsInit /\ [][HitresultsNext]_vars

----------------------------------------------------------------------------
(* Claims about hit-result completion and the effective miss count *)

\* The OsuPPInner assert_hitresults() returned.
Inner == Unwrap(inner)
\* What the caller supplied: the counts (unset = 0) and their sum with the misses.
Supplied ==
    UnwrapOr(calculator.n300, 0) + UnwrapOr(calculator.n100, 0)
        + UnwrapOr(calculator.n50, 0) + calculator.n_misses

\* C11: without a stored accuracy, when the supplied n300, n100, n50 and
\* misses sum to at most the passed-object count, assert_hitresults()
\* returns counts with n300 + n100 + n50 + misses equal to the passed-object
\* count, whichever of the three tiers the caller set; the tiers the caller
\* set and the completion did not pick keep their values.
C11_CompletionFillsUp ==
    (IsSome(inner) /\ IsNone(calculator.acc) /\ Supplied <= NObjects(calculator)) =>
        /\ ~overflowed
        /\ Inner.n300 + Inner.n100 + Inner.n50 + calculator.n_misses
               = NObjects(calculator)
        /\ Inner.n300 >= UnwrapOr(calculator.n300, 0)
        /\ Inner.n100 >= UnwrapOr(calculator.n100, 0)
        /\ Inner.n50 >= UnwrapOr(calculator.n50, 0)

\* All three tiers and a miss were set, objects were left over, and the
\* completion has put them on n300.
C11_Witness ==
    /\ IsSome(inner) /\ IsNone(calculator.acc)
    /\ IsSome(calculator.n300) /\ IsSome(calculator.n100) /\ IsSome(calculator.n50)
    /\ calculator.n_misses > 0
    /\ Supplied < NObjects(calculator)
    /\ Inner.n300 = Unwrap(calculator.n300) + NObjects(calculator) - Supplied
    /\ Inner.n300 + Inner.n100 + Inner.n50 + calculator.n_misses = NObjects(calculator)

\* C12 (as claimed, on the inputs with at least one judged object): the
\* effective miss count lies between the raw miss count and the total
\* judged-object count total_hits = min(n300 + n100 + n50 + misses, passed
\* objects).
C12_EffectiveMissesBounded ==
    (IsSome(inner) /\ Inner.total_hits > 0) =>
        /\ calculator.n_misses <= Inner.effective_misses
        /\ Inner.effective_misses <= Inner.total_hits

\* The estimate E of the claim applies: the bundle has a slider and a combo
\* was supplied strictly below max_combo - 0.1 * n_sliders.
EstimateApplies ==
    /\ Inner.attributes.n_sliders >= 1
    /\ IsSome(calculator.combo)
    /\ 10 * Unwrap(calculator.combo)
           < 10 * Inner.attributes.max_combo - Inner.attributes.n_sliders

\* floor(min(E, total judged objects)): the largest whole number that is at
\* most total_hits and at most
\* E = (max_combo - 0.1 * n_sliders) / max(combo, 1), or 0 if E does not apply.
FloorOfEstimate ==
    IF EstimateApplies
    THEN LET num == 10 * Inner.attributes.max_combo - Inner.attributes.n_sliders
             den == 10 * Max(Unwrap(calculator.combo), 1)
         IN CHOOSE k \in 0..Inner.total_hits :
                /\ k * den <= num
                /\ (k + 1) * den > num \/ k = Inner.total_hits
    ELSE 0

\* C17: the effective miss count is max(raw misses, floor(min(E, total
\* judged objects))) with E as above; with no sliders or with no combo
\* supplied it is the raw miss count.
C17_EffectiveMissesFormula ==
    IsSome(inner) =>
        /\ Inner.effective_misses = Max(calculator.n_misses, FloorOfEstimate)
        /\ (Inner.attributes.n_sliders = 0 \/ IsNone(calculator.combo)) =>
               Inner.effective_misses = calculator.n_misses

\* A combo below the threshold of a bundle with sliders was supplied, and the
\* estimate, not clamped by the judged objects, has raised the effective miss
\* count above a non-zero raw miss count.
C17_Witness ==
    /\ IsSome(inner) /\ EstimateApplies
    /\ calculator.n_misses = 1
    /\ Inner.effective_misses = 2
    /\ Inner.total_hits > 2

----------------------------------------------------------------------------
(* OsuPP: attributes(), calculate() and OsuPPInner::calculate() *)

\* A Beatmap with the given beatmap_id.
BeatmapWithId(len, beatmap_id) == [Beatmap(len) EXCEPT !.beatmap_id = beatmap_id]

\* Mods::rx: the relax bit (128) of the mod bit mask
Rx(mods) == (mods \div 128) % 2 = 1

\* OsuStars::new(map).mods(mods).passed_objects(..).clock_rate(..).calculate():
\* the attributes of the passed prefix of the map. Every second hit object of
\* a model map is a slider worth two combo, the others are circles.
OsuStarsCalculate(m, mods, passed_objects, clock_rate) ==
    LET n == Min(UnwrapOr(passed_objects, Len(m.hit_objects)), Len(m.hit_objects))
        n_sliders == n \div 2
    IN OsuDifficultyAttributes(mods, passed_objects, clock_rate, n_sliders, n + n_sliders)

\* OsuAttributeProvider::attributes: a provider of osu! attributes yields
\* them, a provider holding another mode's attributes yields None.
ProviderAttributes(provider) ==
    IF provider.mode = "osu" THEN Some(provider.attributes) ELSE None

\* OsuPP::attributes
OsuPPAttributes(self, provider) ==
    IF IsSome(ProviderAttributes(provider))
    THEN [self EXCEPT !.attributes = ProviderAttributes(provider)]
    ELSE self

\* OsuPP::clock_rate
OsuPPClockRate(self, clock_rate) == [self EXCEPT !.clock_rate = Some(clock_rate)]

\* An f64 the model does not evaluate: the function that computes it and
\* what it is computed from. 0.0 is the only value the model knows.
F64Of(fn, args) == [fn |-> fn, args |-> args]
F64Zero == F64Of("0.0", << >>)

\* missing_combo of compute_aim_value (line 520), computed only for
\* attributes with sliders: the usize difference and whether it underflowed.
MissingCombo(self) ==
    IF self.attributes.n_sliders > 0
    THEN [value |-> Some(WrappingSub(self.attributes.max_combo,
                                     UnwrapOr(self.combo, self.attributes.max_combo))),
          overflow |-> SubOverflows(self.attributes.max_combo,
                                    UnwrapOr(self.combo, self.attributes.max_combo))]
    ELSE [value |-> None, overflow |-> FALSE]

\* The map-id corrections of lines 411-426, as a fraction.
MapCorrection(mods, map_id) ==
    IF Rx(mods)
    THEN CASE map_id = 1808605 -> <<7, 10>>
           [] map_id = 1821147 -> <<6, 10>>
           [] map_id = 1849420 -> <<6, 10>>
           [] OTHER -> <<1, 1>>
    ELSE <<1, 1>>

\* The skill values and pp of lines 366-428, computed from the OsuPPInner.
SkillValues(self, map_id) ==
    LET missing_combo == MissingCombo(self)
    IN [difficulty |-> self.attributes,
        pp_acc |-> F64Of("compute_accuracy_value", <<self>>),
        pp_aim |-> F64Of("compute_aim_value", <<self, missing_combo.value>>),
        pp_flashlight |-> F64Of("compute_flashlight_value", <<self>>),
        pp_speed |-> F64Of("compute_speed_value", <<self>>),
        pp |-> F64Of("pp", <<self, missing_combo.value, MapCorrection(self.mods, map_id)>>)]

\* The skill values are computed whatever total_hits is.
InnerCalculate_nozerocheck(self, map_id) ==
    [attributes |-> SkillValues(self, map_id),
     evaluated |-> TRUE,
     overflow |-> MissingCombo(self).overflow]

\* OsuPPInner::calculate(self, map_id): the OsuPerformanceAttributes, whether
\* the skill values were evaluated, and whether line 520 overflowed.
InnerCalculate(self, map_id) ==
    IF self.total_hits = 0
    THEN [attributes |-> [difficulty |-> self.attributes,
                          pp_acc |-> F64Zero, pp_aim |-> F64Zero,
                          pp_flashlight |-> F64Zero, pp_speed |-> F64Zero,
                          pp |-> F64Zero],
          evaluated |-> FALSE,
          overflow |-> FALSE]
    ELSE [attributes |-> SkillValues(self, map_id),
          evaluated |-> TRUE,
          overflow |-> MissingCombo(self).overflow]

\* The stored attributes are used only if no passed_objects is set.
calculate_rederive_partial(self) ==
    LET rederive == IsNone(self.attributes) \/ IsSome(self.passed_objects)
        attributes ==
            IF rederive
            THEN OsuStarsCalculate(self.map, self.mods, self.passed_objects,
                                   self.clock_rate)
            ELSE Unwrap(self.attributes)
        hitresults == assert_hitresults(self, attributes)
        performance == InnerCalculate(hitresults.inner, self.map.beatmap_id)
    IN [attributes |-> performance.attributes,
        inner |-> hitresults.inner,
        rederived |-> rederive,
        evaluated |-> performance.evaluated,
        overflow |-> hitresults.overflow \/ performance.overflow]

\* OsuPP::calculate(self): the OsuPerformanceAttributes returned, the
\* OsuPPInner on the way, whether the attributes were re-derived, whether the
\* skill values were evaluated, and whether an operation overflowed.
calculate(self) ==
    LET rederive == IsNone(self.attributes)
        attributes ==
            IF rederive
            THEN OsuStarsCalculate(self.map, self.mods, self.passed_objects,
                                   self.clock_rate)
            ELSE Unwrap(self.attributes)
        hitresults == assert_hitresults(self, attributes)
        performance == InnerCalculate(hitresults.inner, self.map.beatmap_id)
    IN [attributes |-> performance.attributes,
        inner |-> hitresults.inner,
        rederived |-> rederive,
        evaluated |-> performance.evaluated,
        overflow |-> hitresults.overflow \/ performance.overflow]

----------------------------------------------------------------------------
(* The calculate() scenario: a configured builder is given an attribute    *)
(* provider or none, then calculate() is called                            *)

\* Mod bit masks of the scenario: nomod and RX (128).
OsuModSets == {0, 128}
\* beatmap ids of the scenario: an ordinary one and one of line 413.
MapIds == {0, 1808605}
\* a clock rate a caller sets: 1.5
ClockRates == {<<3, 2>>}

OsuMaps == {BeatmapWithId(len, id) : len \in 0..MaxObjects, id \in MapIds}

\* The builders a caller can have configured with mods, combo,
\* passed_objects and clock_rate.
CalculateBuilders(m) ==
    {[OsuPPNew(m) EXCEPT !.mods = mods, !.combo = combo,
                         !.passed_objects = passed_objects,
                         !.clock_rate = clock_rate] :
        mods \in OsuModSets, combo \in Options(0..MaxCombo),
        passed_objects \in Options(0..MaxObjects), clock_rate \in Options(ClockRates)}

\* The providers handed to attributes(): osu! attributes computed for some
\* mods, or the attributes of another mode.
Providers ==
    {[mode |-> "osu",
      attributes |-> OsuDifficultyAttributes(mods, None, None, n_sliders, max_combo)] :
        mods \in OsuModSets, n_sliders \in 0..MaxSliders, max_combo \in 0..MaxCombo}
    \cup {[mode |-> "catch", attributes |-> OsuDifficultyAttributes(0, None, None, 0, 0)]}

CalculateInit ==
    /\ map \in OsuMaps
    /\ gradual = [g \in Evaluators |-> GradualPerformanceNew(map, 0)]
    /\ ret = [g \in Evaluators |-> None]
    /\ last = [g \in Evaluators |-> None]
    /\ handed = [g \in Evaluators |-> None]
    /\ calculator \in CalculateBuilders(map)
    /\ orig = calculator
    /\ acc_arg = None
    /\ overflow_checks \in BOOLEAN
    /\ overflowed = FALSE
    /\ again = None
    /\ inner = None
    /\ result = None
    /\ provided = None

\* calculate() has been called.
CalculateCalled == IsSome(inner)

\* calculator = calculator.attributes(provider); the caller of the scenario
\* calls it at most once.
Attributes ==
    \E provider \in Providers :
        /\ ~CalculateCalled
        /\ IsNone(provided)
        /\ calculator' = OsuPPAttributes(calculator, provider)
        /\ orig' = OsuPPAttributes(calculator, provider)
        /\ provided' = Some(provider)
        /\ UNCHANGED <<gradualVars, acc_arg, overflow_checks, overflowed, again,
                       inner, result>>

\* result = calculator.calculate()
Calculate ==
    LET r == calculate(calculator)
    IN /\ ~CalculateCalled
       /\ overflowed' = r.overflow
       /\ inner' = Some(r.inner)
       /\ result' = IF r.overflow /\ overflow_checks
                    THEN None
                    ELSE Some([attributes |-> r.attributes,
                               rederived |-> r.rederived,
                               evaluated |-> r.evaluated])
       /\ UNCHANGED <<gradualVars, calculator, orig, acc_arg, overflow_checks,
                      again, provided>>

CalculateNext == Attributes \/ Calculate

CalculateSpec == CalculateInit /\ [][CalculateNext]_vars

----------------------------------------------------------------------------
(* Claims about calculate() *)

\* What calculate() returned.
Result == Unwrap(result)

\* C13: when the total judged-object count is 0, calculate() returns a
\* result whose aim, speed, accuracy, flashlight and total pp are all exactly
\* 0, for every mods, attribute bundle and map id, without evaluating a skill
\* value (so without the subtraction of line 520 or a division by the total).
C13_ZeroTotalZeroPP ==
    (CalculateCalled /\ Inner.total_hits = 0) =>
        /\ IsSome(result) /\ ~overflowed
        /\ Result.attributes.pp_aim = F64Zero
        /\ Result.attributes.pp_speed = F64Zero
        /\ Result.attributes.pp_acc = F64Zero
        /\ Result.attributes.pp_flashlight = F64Zero
        /\ Result.attributes.pp = F64Zero
        /\ ~Result.evaluated

\* No object was judged on a map with objects, under RX on a map id of the
\* correction table, with a supplied bundle with sliders and a combo above
\* its max combo, in the build that panics on overflow: the result is all 0.
C13_Witness ==
    /\ CalculateCalled /\ Inner.total_hits = 0 /\ IsSome(result)
    /\ overflow_checks
    /\ Len(map.hit_objects) > 0 /\ map.beatmap_id = 1808605
    /\ Rx(calculator.mods)
    /\ IsSome(calculator.attributes)
    /\ Inner.attributes.n_sliders > 0
    /\ IsSome(calculator.combo)
    /\ Unwrap(calculator.combo) > Inner.attributes.max_combo
    /\ Result.attributes.pp = F64Zero

\* The supplied bundle was computed for the builder's mods.
ModCompatible ==
    /\ IsSome(calculator.attributes)
    /\ Unwrap(calculator.attributes).computed_for.mods = calculator.mods

\* What re-deriving the attributes from the map gives for the builder.
Rederived ==
    OsuStarsCalculate(map, calculator.mods, calculator.passed_objects,
                      calculator.clock_rate)

\* C15 (as claimed): calculate() skips the re-derivation only when a prior
\* bundle was stored and was computed for the builder's mods; when no bundle
\* was stored (no provider, or a provider that yields none) or the bundle was
\* computed for other mods, the result carries the attributes re-derived from
\* the map with the builder's mods, passed_objects and clock rate.
C15_FallsBackUnlessCompatible ==
    IsSome(result) =>
        /\ ~Result.rederived => ModCompatible
        /\ ~ModCompatible =>
               /\ Result.rederived
               /\ Result.attributes.difficulty = Rederived

\* C15 (amended): calculate() skips the re-derivation exactly when a bundle
\* was stored, whatever mods it was computed for, and the result then
\* carries that bundle; when none was stored (no provider, or a provider that
\* yields none) the result carries the attributes re-derived from the map
\* with the builder's mods, passed_objects and clock rate.
C15_FallsBackIfMissing ==
    IsSome(result) =>
        /\ Result.rederived <=> IsNone(calculator.attributes)
        /\ IsSome(calculator.attributes) =>
               Result.attributes.difficulty = Unwrap(calculator.attributes)
        /\ IsNone(calculator.attributes) =>
               Result.attributes.difficulty = Rederived

\* A provider of another mode's attributes was handed to a builder with
\* mods, passed_objects and clock_rate set: nothing was stored and the
\* result carries the re-derived attributes of the passed prefix.
C15_Witness ==
    /\ IsSome(result) /\ IsSome(provided)
    /\ Unwrap(provided).mode = "catch"
    /\ IsNone(calculator.attributes)
    /\ Rx(calculator.mods)
    /\ calculator.passed_objects = Some(2) /\ Len(map.hit_objects) > 2
    /\ IsSome(calculator.clock_rate)
    /\ Result.rederived
    /\ Result.attributes.difficulty = Rederived

\* C16 (as claimed, on passed-object counts within a map with objects and
\* bundles with at least two combo per slider): calculate() raises no failure
\* for inconsistent numeric inputs: for every supplied combo, including a
\* combo above the attributes' max combo with sliders, the missing-combo
\* difference of line 520 does not go below zero, and a result is produced.
C16_NoFailureOnAnyCombo ==
    (/\ CalculateCalled
     /\ Len(map.hit_objects) > 0
     /\ NObjects(calculator) <= Len(map.hit_objects)
     /\ Inner.attributes.max_combo >= 2 * Inner.attributes.n_sliders) =>
        (~overflowed /\ IsSome(result))

====
